---- MODULE Spec2Model ----
(***************************************************************************)
(* Model of Point-1/check_issuance.py: the hourly check of an issuance     *)
(* sheet.  One invocation of check_excel fingerprints the Excel file,      *)
(* logs the differences against the pickled snapshot of the previous run,  *)
(* persists the new snapshot and fingerprint, and then mails a reminder    *)
(* for every item due tomorrow and an escalation for every overdue item.   *)
(*                                                                         *)
(* Python values are modelled as cells [t, s, d]: t is the type tag, s the *)
(* characters of a str, d the day number of a Timestamp.  Row and column   *)
(* indices written to the log are 0-based as in the code; TLA+ sequences   *)
(* are 1-based, so position i of a sequence is index i-1 of the code.      *)
(***************************************************************************)
EXTENDS Integers, Sequences, FiniteSets, TLC

\* ------------------------------------------------------------------ bounds

\* Largest number of data rows of the sheet.
MaxRows == 2

\* check_excel is started only while changes_log.txt holds fewer lines than
\* this (the log grows without bound otherwise).
MaxLog == 4

\* ------------------------------------------------------------ python values

Str(s) == [t |-> "str", s |-> s, d |-> 0]

Date(d) == [t |-> "date", s |-> <<>>, d |-> d]

\* float('nan'): what pandas holds for an empty cell of an object column.
NaN == [t |-> "NaN", s |-> <<>>, d |-> 0]

\* pandas.NaT: what pd.to_datetime(errors="coerce") yields for a missing or
\* unparseable date.
NaT == [t |-> "NaT", s |-> <<>>, d |-> 0]

\* Python None (a file that does not exist yet; a field a message lacks).
None == [t |-> "None", s |-> <<>>, d |-> 0]

IsStr(c) == c.t = "str"

\* pd.isnull(value)
IsNull(c) == c.t \in {"NaN", "NaT", "None"}

\* a != b on two cell values: NaN and NaT are unequal to everything,
\* themselves included; all other values compare by type and value.
PyNe(a, b) ==
    IF a.t \in {"NaN", "NaT"} \/ b.t \in {"NaN", "NaT"} THEN TRUE ELSE a # b

\* str(value), as characters (of a Timestamp: an ISO date text, of which
\* only "it is not the word yes" matters to the program).
PyStr(c) ==
    CASE c.t = "str" -> c.s
      [] c.t = "NaN" -> <<"n", "a", "n">>
      [] c.t = "NaT" -> <<"N", "a", "T">>
      [] c.t = "None" -> <<"N", "o", "n", "e">>
      [] OTHER -> <<"2", "0", "2", "5", "-", "0", "1", "-", "0", "1">>

Whitespace == {" ", "\t", "\n"}

RECURSIVE LStrip(_)
LStrip(s) ==
    IF s # <<>> /\ Head(s) \in Whitespace THEN LStrip(Tail(s)) ELSE s

RECURSIVE RStrip(_)
RStrip(s) ==
    IF s # <<>> /\ s[Len(s)] \in Whitespace
    THEN RStrip(SubSeq(s, 1, Len(s) - 1))
    ELSE s

\* str.strip()
Strip(s) == RStrip(LStrip(s))

LowerChar(ch) ==
    CASE ch = "Y" -> "y"
      [] ch = "E" -> "e"
      [] ch = "S" -> "s"
      [] ch = "N" -> "n"
      [] ch = "O" -> "o"
      [] ch = "T" -> "t"
      [] OTHER -> ch

\* str.lower()
Lower(s) == [i \in 1..Len(s) |-> LowerChar(s[i])]

\* ------------------------------------------------------------------ sheet

\* The columns of the issuance sheet, in sheet order (the names check_excel
\* reads by, and the order the positional comparison walks).
Columns ==
    <<"Name", "Roll Number", "RFID Tag", "Date of Issuing", "Date of Return",
      "Email", "Returned">>

\* A sheet may carry one further passthrough column after the known ones.
WideColumns == Columns \o <<"Remarks">>

\* Position of a named column: row["<name>"].
ColIndex(cols, name) == CHOOSE i \in 1..Len(cols) : cols[i] = name

\* The columns pd.to_datetime(..., errors="coerce") is applied to.
DateColumns == {"Date of Issuing", "Date of Return"}

\* pd.to_datetime(value, errors="coerce") on one cell: a date stays, anything
\* missing or unparseable becomes NaT (the texts the sheets here hold in a
\* date column are unparseable ones).
ToDatetime(c) == IF c.t = "date" THEN c ELSE NaT

\* pd.read_excel followed by the two date conversions: the DataFrame
\* df_current of a file.  A frame is [cols, rows], rows a sequence of rows,
\* each a sequence of cells aligned with cols.
ReadExcel(file) ==
    [cols |-> file.cols,
     rows |-> [r \in 1..Len(file.rows) |->
                 [c \in 1..Len(file.cols) |->
                    IF file.cols[c] \in DateColumns
                    THEN ToDatetime(file.rows[r][c])
                    ELSE file.rows[r][c]]]]

\* df.shape
Shape(df) == <<Len(df.rows), Len(df.cols)>>

\* compute_file_hash: SHA-256 over the bytes of the file.  The digest is
\* modelled as collision-free: equal digests iff equal bytes (the sheet's
\* content together with the bytes that carry no data, file.meta).
ComputeFileHash(file) == [digest |-> file]

\* ---------------------------------------------------------- configuration

\* ADMIN_EMAILS
ADMIN_EMAILS == <<Str(<<"a", "d", "m", "1">>), Str(<<"a", "d", "m", "2">>)>>

\* ------------------------------------------------------------- change log

NoShape == <<0, 0>>

\* One line of changes_log.txt.  The messages check_excel formats are kept
\* as records: kind names the message, the other fields are the values the
\* f-string interpolates (-1, None, <<>> and NoShape where it has none);
\* log_change puts the timestamp in front (Entry).
Line(kind, row, col, old, new, rec, from, to) ==
    [kind |-> kind, row |-> row, col |-> col, old |-> old, new |-> new,
     rec |-> rec, from |-> from, to |-> to]

\* "File hash changed - possible tampering or new entries."
HashChangedLine == Line("HashChanged", -1, -1, None, None, <<>>, NoShape, NoShape)

\* "No previous data found. Initializing data storage."
NoPreviousLine == Line("NoPrevious", -1, -1, None, None, <<>>, NoShape, NoShape)

\* "Row/column count changed from {previous.shape} to {current.shape}."
ShapeChangedLine(from, to) ==
    Line("ShapeChanged", -1, -1, None, None, <<>>, from, to)

\* "Row {row}, Col {col} changed from '{val_previous}' to '{val_current}'."
CellChangedLine(row, col, old, new) ==
    Line("CellChanged", row, col, old, new, <<>>, NoShape, NoShape)

\* "New row added at index {r}: {df_current.iloc[r].to_dict()}"
RowAddedLine(r, rec) == Line("RowAdded", r, -1, None, None, rec, NoShape, NoShape)

\* "Row removed at old index {r}: {df_previous.iloc[r].to_dict()}"
RowRemovedLine(r, rec) ==
    Line("RowRemoved", r, -1, None, None, rec, NoShape, NoShape)

Min(a, b) == IF a < b THEN a ELSE b

Max(a, b) == IF a > b THEN a ELSE b

\* The shape check of check_excel.
ShapeLines(prev, cur) ==
    IF Shape(cur) # Shape(prev)
    THEN <<ShapeChangedLine(Shape(prev), Shape(cur))>>
    ELSE <<>>

\* Mutant of CellLines: the common cells are walked column by column.
CellLines_ColumnMajor(prev, cur) ==
    LET minRows == Min(Len(cur.rows), Len(prev.rows))
        minCols == Min(Len(cur.cols), Len(prev.cols))
        at(k) == <<(k - 1) % minRows, (k - 1) \div minRows>>
        cells == [k \in 1..(minRows * minCols) |-> at(k)]
        valCur(p) == cur.rows[p[1] + 1][p[2] + 1]
        valPrev(p) == prev.rows[p[1] + 1][p[2] + 1]
        changed == SelectSeq(cells, LAMBDA p : PyNe(valCur(p), valPrev(p)))
    IN  [k \in 1..Len(changed) |->
           CellChangedLine(changed[k][1], changed[k][2],
                           valPrev(changed[k]), valCur(changed[k]))]

\* The nested loop over the common cells, row-major; indices 0-based.
CellLines(prev, cur) ==
    LET minRows == Min(Len(cur.rows), Len(prev.rows))
        minCols == Min(Len(cur.cols), Len(prev.cols))
        at(k) == <<(k - 1) \div minCols, (k - 1) % minCols>>
        cells == [k \in 1..(minRows * minCols) |-> at(k)]
        valCur(p) == cur.rows[p[1] + 1][p[2] + 1]
        valPrev(p) == prev.rows[p[1] + 1][p[2] + 1]
        changed == SelectSeq(cells, LAMBDA p : PyNe(valCur(p), valPrev(p)))
    IN  [k \in 1..Len(changed) |->
           CellChangedLine(changed[k][1], changed[k][2],
                           valPrev(changed[k]), valCur(changed[k]))]

\* Mutant of RowLines: rows that went away are not reported.
RowLines_AddOnly(prev, cur) ==
    LET nc == Len(cur.rows)
        np == Len(prev.rows)
    IN  IF nc > np
        THEN [k \in 1..(nc - np) |-> RowAddedLine(np + k - 1, cur.rows[np + k])]
        ELSE <<>>

\* The trailing rows: added when current is longer, removed when shorter.
RowLines(prev, cur) ==
    LET nc == Len(cur.rows)
        np == Len(prev.rows)
    IN  IF nc > np
        THEN [k \in 1..(nc - np) |-> RowAddedLine(np + k - 1, cur.rows[np + k])]
        ELSE IF nc < np
        THEN [k \in 1..(np - nc) |-> RowRemovedLine(nc + k - 1, prev.rows[nc + k])]
        ELSE <<>>

\* Mutant of DiffLines: a missing last_data.pkl is taken for an empty frame
\* and compared, instead of being reported as the first run.
DiffLines_EmptyBaseline(stored, cur) ==
    LET prev == IF stored # <<>> THEN stored[1]
                ELSE [cols |-> cur.cols, rows |-> <<>>]
    IN  ShapeLines(prev, cur) \o CellLines(prev, cur) \o RowLines(prev, cur)

\* Section C of check_excel: the lines logged for df_previous (a stored
\* frame, <<>> when last_data.pkl does not exist) against df_current.
DiffLines(stored, cur) ==
    IF stored # <<>>
    THEN ShapeLines(stored[1], cur) \o CellLines(stored[1], cur)
         \o RowLines(stored[1], cur)
    ELSE <<NoPreviousLine>>

\* ---------------------------------------------------------- notifications

Yes == <<"y", "e", "s">>

\* Mutant of ReturnedFlag: the flag is lower-cased but not trimmed.
ReturnedFlag_NoStrip(cell) == Lower(PyStr(cell))

\* returned_flag = str(row["Returned"]).strip().lower()
ReturnedFlag(cell) == Lower(Strip(PyStr(cell)))

\* return_date_only == tomorrow and returned_flag != "yes"
IsReminderDue(day, now, flag) == day = now + 1 /\ flag # Yes

\* return_date_only < today and returned_flag != "yes"
IsOverdue(day, now, flag) == day < now /\ flag # Yes

\* A call of send_email.  subject is "Return Due Tomorrow" (Reminder) or
\* "Failure of Returning" (Failure); name and roll are what the body
\* interpolates (the escalation names no person: None); to is to_addrs;
\* row is the index of the row the call was made for.
Message(subject, name, roll, to, row) ==
    [subject |-> subject, name |-> name, roll |-> roll, to |-> to, row |-> row]

\* send_email(subject, body, [email]) of the reminder branch.
ReminderMessage(name, roll, email, row) ==
    Message("Reminder", name, roll, <<email>>, row)

\* send_email(subject, body, ADMIN_EMAILS) of the overdue branch.
FailureMessage(name, roll, email, row) ==
    Message("Failure", None, roll, ADMIN_EMAILS, row)

\* The send_email calls the loop body makes for row i (1-based) of df, in
\* order, provided each call returns.
RowMessages(df, i, now) ==
    LET row == df.rows[i]
        return_date == row[ColIndex(df.cols, "Date of Return")]
        returned_flag == ReturnedFlag(row[ColIndex(df.cols, "Returned")])
        roll_number == row[ColIndex(df.cols, "Roll Number")]
        email == row[ColIndex(df.cols, "Email")]
        name == row[ColIndex(df.cols, "Name")]
    IN  IF IsNull(return_date)
        THEN <<>>
        ELSE (IF IsReminderDue(return_date.d, now, returned_flag)
              THEN <<ReminderMessage(name, roll_number, email, i - 1)>>
              ELSE <<>>)
             \o
             (IF IsOverdue(return_date.d, now, returned_flag)
              THEN <<FailureMessage(name, roll_number, email, i - 1)>>
              ELSE <<>>)

\* send_email: ", ".join(to_addrs) is evaluated before the try block, so a
\* recipient that is not a str (the NaN of an empty Email cell) raises
\* TypeError out of send_email; inside the try block the SMTP exchange either
\* succeeds or raises an exception that is caught and printed.
SendOutcomes(msg) ==
    IF \A k \in 1..Len(msg.to) : IsStr(msg.to[k])
    THEN {"sent", "failed"}
    ELSE {"raised"}

\* A send_email call with the way it ended.
Call(msg, outcome) == [msg |-> msg, outcome |-> outcome]

\* ------------------------------------------------------------ environment

Asha == Str(<<"A">>)
Ravi == Str(<<"B">>)
Roll1 == Str(<<"1">>)
Roll2 == Str(<<"2">>)
MailA == Str(<<"a", "@">>)
MailB == Str(<<"b", "@">>)
No == Str(<<"n", "o">>)

\* A row of the sheet as the file holds it (tag and issuing date fixed).
Row(name, roll, due, email, returned) ==
    <<name, roll, Str(<<"T">>), Date(1), due, email, returned>>

\* The sheets explored are grouped in pools: a behaviour draws every version
\* of the file from one pool.  rows: the rows a sheet may hold; wide: the
\* cells of the extra column of a wide sheet; metas: the non-data bytes of the
\* file; days: the calendar days the clock runs through; longer: a number of
\* rows a sheet may hold even when MaxRows is less; racy: whether the file
\* may also be rewritten between fingerprinting and reading; faults: what
\* may go wrong with the files (the ways the Excel file may be unreadable;
\* "disk": a write to last_data.pkl or last_hash.txt may fail).
Pool(rows, wide, metas, days, longer, racy, faults) ==
    [rows |-> rows, wide |-> wide, metas |-> metas, days |-> days,
     longer |-> longer, racy |-> racy, faults |-> faults]

Pools ==
    { \* due dates around today, two people
      Pool({Row(Asha, Roll1, Date(3), MailA, No),
            Row(Ravi, Roll2, Date(5), MailB, No)}, {}, {0}, {3, 4}, 0, FALSE, {}),
      \* spellings of the returned flag
      Pool({Row(Asha, Roll1, Date(3), MailA, Str(<<" ", "y", "e", "s", " ">>)),
            Row(Ravi, Roll2, Date(3), MailB, Str(<<"Y", "E", "S">>))},
           {}, {0}, {2, 4}, 0, FALSE, {}),
      Pool({Row(Asha, Roll1, Date(3), MailA, Str(<<"Y", "e", "s">>)),
            Row(Ravi, Roll2, Str(<<"n", "/", "a">>), MailB, NaN)},
           {}, {0}, {2, 4}, 0, FALSE, {}),
      Pool({Row(Asha, Roll1, Date(3), MailA, Str(<<"y">>)),
            Row(Ravi, Roll2, Date(3), MailB, Str(<<"y", "e", "s", "!">>))},
           {}, {0}, {2, 4}, 0, FALSE, {}),
      Pool({Row(Asha, Roll1, Date(3), MailA, Str(<<"y", "e", "s">>)),
            Row(Ravi, Roll2, Date(3), MailB, NaN)},
           {}, {0}, {2, 4}, 0, FALSE, {}),
      \* an empty Email cell
      Pool({Row(Asha, Roll1, Date(5), NaN, No),
            Row(Ravi, Roll2, Date(3), MailB, No)}, {}, {0}, {4}, 3, FALSE, {}),
      \* an empty Date of Return cell
      Pool({Row(Asha, Roll1, NaN, MailA, No),
            Row(Asha, Roll1, Date(3), MailA, No)}, {}, {0}, {3}, 0, FALSE, {}),
      \* a sheet with or without the extra column
      Pool({Row(Asha, Roll1, Date(3), MailA, No)},
           {Str(<<"o", "\n", "k">>), NaN}, {0}, {3}, 0, FALSE, {}),
      \* a file re-saved with the same data, also while a run is reading it
      Pool({Row(Asha, Roll1, Date(3), MailA, No)}, {}, {0, 1}, {3}, 0, TRUE, {}),
      \* a file that is missing, is no workbook, or lacks a date column, and
      \* stores that may fail to be written
      Pool({Row(Asha, Roll1, Date(3), MailA, No)}, {}, {0}, {3}, 0, FALSE,
           {"absent", "garbage", "nodates", "disk"}) }

\* All sequences over S of length at most n.
SeqsUpTo(S, n) == UNION {[1..k -> S] : k \in 0..n}

\* The most rows a sheet of the pool holds.
RowBound(p) == Max(MaxRows, p.longer)

\* The versions of the Excel file a pool allows: [cols, rows, meta, kind].
Files(p) ==
    {[cols |-> Columns, rows |-> rs, meta |-> m, kind |-> "xlsx"] :
        rs \in SeqsUpTo(p.rows, RowBound(p)), m \in p.metas}
    \cup
    {[cols |-> WideColumns,
      rows |-> [i \in 1..Len(f[1]) |-> Append(f[1][i], f[2])],
      meta |-> f[3], kind |-> "xlsx"] :
        f \in SeqsUpTo(p.rows, RowBound(p)) \X p.wide \X p.metas}

\* A file that cannot be fingerprinted or read.  kind is "absent" (no file at
\* EXCEL_PATH, or no permission: open raises), "garbage" (bytes that are no
\* workbook: pd.read_excel raises) or "nodates" (a workbook without a date
\* column: df_current[col] raises KeyError).
BrokenFile(kind) == [cols |-> <<>>, rows |-> <<>>, meta |-> 0, kind |-> kind]

Broken(p) == {BrokenFile(k) : k \in p.faults \ {"disk"}}

\* ------------------------------------------------------------------ state

VARIABLES
    pool,          \* the pool the behaviour draws the file's versions from
    excel,         \* the file at EXCEL_PATH
    clock,         \* the calendar day datetime.now() reports
    lastHash,      \* last_hash.txt: <<>> if absent or empty, else <<digest>>
    lastData,      \* last_data.pkl: <<>> if absent, else <<frame>>
    changesLog,    \* changes_log.txt: its entries
    outbox,        \* the send_email calls of the current invocation
    pc,            \* where the main thread is
    error,         \* the exception that ended the program, "none" if none
    job,           \* the hourly job: "nojob", "waiting" or "due"
    active,        \* the number of check_excel invocations in progress
    logMark,       \* entries changes_log.txt held when the invocation began
    stores0,       \* <<last_hash.txt, last_data.pkl>> when the invocation began
    quiet,         \* invocations begun since the file was last saved, up to 2
    current_hash,  \* local of check_excel
    previous_hash, \* local of check_excel
    df_previous,   \* local of check_excel
    df_current,    \* local of check_excel
    today,         \* local of check_excel
    idx            \* the row the due-date loop is at (1-based)

vars ==
    <<pool, excel, clock, lastHash, lastData, changesLog, outbox, pc, error,
      job, active, logMark, stores0, quiet, current_hash, previous_hash,
      df_previous, df_current, today, idx>>

NoFrame == [cols |-> <<>>, rows |-> <<>>]

\* What last_data.pkl holds when pickle.dump was cut short: bytes that are
\* no frame.
TornFrame == [cols |-> <<"torn">>, rows |-> <<>>]

Init ==
    /\ pool \in Pools
    /\ excel \in Files(pool) \cup Broken(pool)
    /\ clock \in pool.days
    /\ lastHash = <<>>
    /\ lastData = <<>>
    /\ changesLog = <<>>
    /\ outbox = <<>>
    /\ pc = "main"
    /\ error = "none"
    /\ job = "nojob"
    /\ active = 0
    /\ logMark = 0
    /\ stores0 = <<lastHash, lastData>>
    /\ quiet = 0
    /\ current_hash = ComputeFileHash(BrokenFile("absent"))
    /\ previous_hash = <<>>
    /\ df_previous = <<>>
    /\ df_current = NoFrame
    /\ today = 0
    /\ idx = 0

\* ------------------------------------------------------------ environment

\* Somebody saves a new version of the Excel file, or removes or damages
\* it.  check_excel opens the file twice, to fingerprint it and to read it,
\* and never again, so a save during the rest of a run is the same as a save
\* after it, and a save between the end of the hour and the run_pending that
\* follows within the minute is the same as a save before the end of the
\* hour.  Saves that no further run can see (the log is full) are not
\* explored.
EditFile ==
    /\ (pc = "sched" /\ job = "waiting") \/ (pc = "read" /\ pool.racy)
    /\ Len(changesLog) < MaxLog
    /\ excel' \in (Files(pool) \cup Broken(pool)) \ {excel}
    /\ quiet' = 0
    /\ UNCHANGED <<pool, clock, lastHash, lastData, changesLog, outbox, pc,
                   error, job, active, logMark, stores0, current_hash,
                   previous_hash, df_previous, df_current, today, idx>>

\* The day ends while main sleeps and the job waits.
Midnight ==
    /\ pc = "sched"
    /\ job = "waiting"
    /\ clock + 1 \in pool.days
    /\ clock' = clock + 1
    /\ UNCHANGED <<pool, excel, lastHash, lastData, changesLog, outbox, pc,
                   error, job, active, logMark, stores0, quiet, current_hash,
                   previous_hash, df_previous, df_current, today, idx>>

\* The hour of schedule.every(1).hours is over: the job is due, and the next
\* run_pending of main's loop will run it.
HourElapses ==
    /\ job = "waiting"
    /\ job' = "due"
    /\ UNCHANGED <<pool, excel, clock, lastHash, lastData, changesLog, outbox,
                   pc, error, active, logMark, stores0, quiet, current_hash,
                   previous_hash, df_previous, df_current, today, idx>>

\* ------------------------------------------------------------ check_excel

\* What log_change writes for one message: "[timestamp] message\n".
Entry(now, line) == [ts |-> now, msg |-> line]

\* The line breaks a text holds.
LineBreaks(s) == Cardinality({k \in 1..Len(s) : s[k] = "\n"})

\* The lines of changes_log.txt an entry takes.  The f-string of a cell
\* change interpolates str() of the two values as they are; to_dict() of a
\* row is interpolated as the repr of a dict, which escapes line breaks; the
\* other messages interpolate numbers or nothing.
TextLines(entry) ==
    1 + (IF entry.msg.kind = "CellChanged"
         THEN LineBreaks(PyStr(entry.msg.old)) + LineBreaks(PyStr(entry.msg.new))
         ELSE 0)

\* log_change(message): open(CHANGES_LOG_PATH, "a") and one write.
LogChange(log, line, now) == Append(log, Entry(now, line))

\* log_change for each of lines, in order.
LogChanges(log, lines, now) ==
    log \o [k \in 1..Len(lines) |-> Entry(now, lines[k])]

\* Mutant of Called: a timer thread calls check_excel whenever the job is
\* due, whatever the main thread is doing.
Called_Threaded == pc = "main" \/ (pc # "crashed" /\ job = "due")

\* main calls check_excel at startup (pc = "main"); afterwards its loop calls
\* run_pending, which calls check_excel when the job is due.
Called == pc = "main" \/ (pc = "sched" /\ job = "due")

\* Mutant of CheckHash: the test "previous_hash and" is dropped, so a missing
\* last_hash.txt counts as a changed fingerprint.
CheckHash_NoGuard ==
    /\ Called
    /\ Len(changesLog) < MaxLog
    /\ excel.kind # "absent"
    /\ active' = active + 1
    /\ logMark' = Len(changesLog)
    /\ stores0' = <<lastHash, lastData>>
    /\ quiet' = Min(quiet + 1, 2)
    /\ current_hash' = ComputeFileHash(excel)
    /\ previous_hash' = lastHash
    /\ changesLog' =
         IF lastHash = <<>> \/ ComputeFileHash(excel) # lastHash[1]
         THEN LogChange(changesLog, HashChangedLine, clock)
         ELSE changesLog
    /\ outbox' = <<>>
    /\ pc' = "read"
    /\ UNCHANGED <<pool, excel, clock, lastHash, lastData, error, job,
                   df_previous, df_current, today, idx>>

\* Mutant of CheckHash: the fingerprint is written to last_hash.txt as soon
\* as it is computed.
CheckHash_SavesEarly ==
    /\ Called
    /\ Len(changesLog) < MaxLog
    /\ excel.kind # "absent"
    /\ active' = active + 1
    /\ logMark' = Len(changesLog)
    /\ stores0' = <<lastHash, lastData>>
    /\ quiet' = Min(quiet + 1, 2)
    /\ current_hash' = ComputeFileHash(excel)
    /\ previous_hash' = lastHash
    /\ changesLog' =
         IF lastHash # <<>> /\ ComputeFileHash(excel) # lastHash[1]
         THEN LogChange(changesLog, HashChangedLine, clock)
         ELSE changesLog
    /\ lastHash' = <<ComputeFileHash(excel)>>
    /\ outbox' = <<>>
    /\ pc' = "read"
    /\ UNCHANGED <<pool, excel, clock, lastData, error, job, df_previous,
                   df_current, today, idx>>

\* Section A: check_excel is called; it fingerprints the file and logs a
\* changed fingerprint.
CheckHash ==
    /\ Called
    /\ Len(changesLog) < MaxLog
    /\ excel.kind # "absent"
    /\ active' = active + 1
    /\ logMark' = Len(changesLog)
    /\ stores0' = <<lastHash, lastData>>
    /\ quiet' = Min(quiet + 1, 2)
    /\ current_hash' = ComputeFileHash(excel)
    /\ previous_hash' = lastHash
    /\ changesLog' =
         IF lastHash # <<>> /\ ComputeFileHash(excel) # lastHash[1]
         THEN LogChange(changesLog, HashChangedLine, clock)
         ELSE changesLog
    /\ outbox' = <<>>
    /\ pc' = "read"
    /\ UNCHANGED <<pool, excel, clock, lastHash, lastData, error, job,
                   df_previous, df_current, today, idx>>

\* Section A when the file cannot be opened: open() in compute_file_hash
\* raises, nothing catches it, and the program ends.
HashFails ==
    /\ Called
    /\ Len(changesLog) < MaxLog
    /\ excel.kind = "absent"
    /\ logMark' = Len(changesLog)
    /\ stores0' = <<lastHash, lastData>>
    /\ quiet' = Min(quiet + 1, 2)
    /\ outbox' = <<>>
    /\ pc' = "crashed"
    /\ error' = "hash"
    /\ UNCHANGED <<pool, excel, clock, lastHash, lastData, changesLog, job,
                   active, current_hash, previous_hash, df_previous,
                   df_current, today, idx>>

\* Section B: read the sheet and convert the date columns.
ReadSheet ==
    /\ pc = "read"
    /\ excel.kind = "xlsx"
    /\ df_current' = ReadExcel(excel)
    /\ pc' = "diff"
    /\ UNCHANGED <<pool, excel, clock, lastHash, lastData, changesLog, outbox,
                   error, job, active, logMark, stores0, quiet, current_hash,
                   previous_hash, df_previous, today, idx>>

\* Section B when pd.read_excel raises (no file, or bytes that are no
\* workbook) or df_current[col] raises (a workbook without a date column):
\* nothing catches it, and the program ends.
ReadFails ==
    /\ pc = "read"
    /\ excel.kind # "xlsx"
    /\ active' = active - 1
    /\ pc' = "crashed"
    /\ error' = "read"
    /\ UNCHANGED <<pool, excel, clock, lastHash, lastData, changesLog, outbox,
                   job, logMark, stores0, quiet, current_hash, previous_hash,
                   df_previous, df_current, today, idx>>

\* Section C: load the previous frame and log every difference.
Diff ==
    /\ pc = "diff"
    /\ df_previous' = lastData
    /\ changesLog' = LogChanges(changesLog, DiffLines(lastData, df_current), clock)
    /\ pc' = "save_data"
    /\ UNCHANGED <<pool, excel, clock, lastHash, lastData, outbox, error, job,
                   active, logMark, stores0, quiet, current_hash,
                   previous_hash, df_current, today, idx>>

\* Mutant of SaveCurrentData: a snapshot that exists is never replaced.
SaveCurrentData_KeepsFirst ==
    /\ pc = "save_data"
    /\ lastData' = IF lastData = <<>> THEN <<df_current>> ELSE lastData
    /\ pc' = "save_hash"
    /\ UNCHANGED <<pool, excel, clock, lastHash, changesLog, outbox, error,
                   job, active, logMark, stores0, quiet, current_hash,
                   previous_hash, df_previous, df_current, today, idx>>

\* Section D, save_current_data(df_current).
SaveCurrentData ==
    /\ pc = "save_data"
    /\ lastData' = <<df_current>>
    /\ pc' = "save_hash"
    /\ UNCHANGED <<pool, excel, clock, lastHash, changesLog, outbox, error,
                   job, active, logMark, stores0, quiet, current_hash,
                   previous_hash, df_previous, df_current, today, idx>>

\* save_current_data raises: open(LAST_DATA_PICKLE, "wb") failed and the
\* file is as it was, or pickle.dump failed after open truncated the file.
\* Nothing catches it, and the program ends.
SaveDataFails ==
    /\ pc = "save_data"
    /\ "disk" \in pool.faults
    /\ lastData' \in {lastData, <<TornFrame>>}
    /\ active' = active - 1
    /\ pc' = "crashed"
    /\ error' = "save_data"
    /\ UNCHANGED <<pool, excel, clock, lastHash, changesLog, outbox, job,
                   logMark, stores0, quiet, current_hash, previous_hash,
                   df_previous, df_current, today, idx>>

\* Mutant of SaveCurrentHash: the fingerprint is written only after the
\* due-date loop, that is, not here.
SaveCurrentHash_Late ==
    /\ pc = "save_hash"
    /\ today' = clock
    /\ idx' = 1
    /\ pc' = "loop"
    /\ UNCHANGED <<pool, excel, clock, lastHash, lastData, changesLog, outbox,
                   error, job, active, logMark, stores0, quiet, current_hash,
                   previous_hash, df_previous, df_current>>

\* Section D, save_current_hash(current_hash), then today = now().date().
SaveCurrentHash ==
    /\ pc = "save_hash"
    /\ lastHash' = <<current_hash>>
    /\ today' = clock
    /\ idx' = 1
    /\ pc' = "loop"
    /\ UNCHANGED <<pool, excel, clock, lastData, changesLog, outbox, error,
                   job, active, logMark, stores0, quiet, current_hash,
                   previous_hash, df_previous, df_current>>

\* save_current_hash raises: open(LAST_HASH_FILE, "w") failed and the file
\* is as it was, or the write failed after open emptied the file (an empty
\* file is read back as "", which "if previous_hash and" treats as no
\* fingerprint).  Nothing catches it, and the program ends.
SaveHashFails ==
    /\ pc = "save_hash"
    /\ "disk" \in pool.faults
    /\ lastHash' \in {lastHash, <<>>}
    /\ active' = active - 1
    /\ pc' = "crashed"
    /\ error' = "save_hash"
    /\ UNCHANGED <<pool, excel, clock, lastData, changesLog, outbox, job,
                   logMark, stores0, quiet, current_hash, previous_hash,
                   df_previous, df_current, today, idx>>

\* The calls of msgs made when the k-th is the first to raise (all of them
\* when none raises): a raise leaves the loop body.
RECURSIVE Calls(_, _)
Calls(msgs, outs) ==
    IF msgs = <<>>
    THEN <<>>
    ELSE IF Head(outs) = "raised"
    THEN <<Call(Head(msgs), "raised")>>
    ELSE <<Call(Head(msgs), Head(outs))>> \o Calls(Tail(msgs), Tail(outs))

\* Section E, one iteration of the loop over df_current.iterrows().  An
\* exception out of send_email leaves check_excel and, as neither main nor
\* schedule catches it, ends the program.
ProcessRow ==
    /\ pc = "loop"
    /\ idx <= Len(df_current.rows)
    /\ LET msgs == RowMessages(df_current, idx, today)
       IN  \E outs \in [1..Len(msgs) -> {"sent", "failed", "raised"}] :
             /\ \A k \in 1..Len(msgs) : outs[k] \in SendOutcomes(msgs[k])
             /\ outbox' = outbox \o Calls(msgs, outs)
             /\ IF \E k \in 1..Len(msgs) : outs[k] = "raised"
                THEN pc' = "crashed" /\ error' = "send" /\ active' = active - 1
                ELSE pc' = "loop" /\ error' = error /\ active' = active
    /\ idx' = idx + 1
    /\ UNCHANGED <<pool, excel, clock, lastHash, lastData, changesLog, job,
                   logMark, stores0, quiet, current_hash, previous_hash,
                   df_previous, df_current, today>>

\* The loop is over: check_excel returns to main.  After the run at startup
\* main schedules the hourly job; after a run of the job, schedule sets the
\* job's next_run an hour ahead.
Return ==
    /\ pc = "loop"
    /\ idx > Len(df_current.rows)
    /\ active' = active - 1
    /\ job' = "waiting"
    /\ pc' = "sched"
    /\ UNCHANGED <<pool, excel, clock, lastHash, lastData, changesLog, outbox,
                   error, logMark, stores0, quiet, current_hash,
                   previous_hash, df_previous, df_current, today, idx>>

Next ==
    \/ EditFile
    \/ Midnight
    \/ HourElapses
    \/ CheckHash
    \/ HashFails
    \/ ReadSheet
    \/ ReadFails
    \/ Diff
    \/ SaveCurrentData
    \/ SaveDataFails
    \/ SaveCurrentHash
    \/ SaveHashFails
    \/ ProcessRow
    \/ Return

Spec == Init /\ [][Next]_vars

\* ------------------------------------------------------------- properties

\* The messages of the entries the latest invocation has appended to
\* changes_log.txt.
RunLines == [k \in 1..(Len(changesLog) - logMark) |-> changesLog[logMark + k].msg]

ChangeKinds == {"CellChanged", "ShapeChanged", "RowAdded", "RowRemoved"}

\* The change records among them.
ChangeRecords == SelectSeq(RunLines, LAMBDA l : l.kind \in ChangeKinds)

\* The latest invocation got past compute_file_hash of section A.
Fingerprinted == pc # "main" /\ ~(pc = "crashed" /\ error = "hash")

\* The latest invocation got past section C (the comparison).
Diffed ==
    \/ pc \in {"save_data", "save_hash", "loop", "sched"}
    \/ pc = "crashed" /\ error \in {"save_data", "save_hash", "send"}

\* The latest invocation got past section D (persistence).
Persisted == pc \in {"loop", "sched"} \/ (pc = "crashed" /\ error = "send")

\* The due-date pass of the latest invocation is over: check_excel returned,
\* or an exception out of send_email ended it.
RunOver == pc = "sched" \/ (pc = "crashed" /\ error = "send")

\* The send_email calls made for the row of index r, and their subjects.
CallsFor(r) == SelectSeq(outbox, LAMBDA c : c.msg.row = r)

SubjectsFor(r) == [k \in 1..Len(CallsFor(r)) |-> CallsFor(r)[k].msg.subject]

\* The spellings of the returned flag that mean "returned".
ReturnedSpellings ==
    {Str(<<"y", "e", "s">>), Str(<<"Y", "E", "S">>), Str(<<"Y", "e", "s">>),
     Str(<<" ", "y", "e", "s", " ">>)}

\* classify(record, today) as the specification states it.
Classify(cols, row, now) ==
    LET due == row[ColIndex(cols, "Date of Return")]
        returned == row[ColIndex(cols, "Returned")] \in ReturnedSpellings
    IN  IF due.t # "date" THEN "None"
        ELSE IF returned THEN "None"
        ELSE IF due.d = now + 1 THEN "ReminderDue"
        ELSE IF due.d < now THEN "Overdue"
        ELSE "None"

\* The sends a classification stands for.
ExpectedSubjects(class) ==
    CASE class = "ReminderDue" -> <<"Reminder">>
      [] class = "Overdue" -> <<"Failure">>
      [] OTHER -> <<>>

\* C1: when the due-date pass of an invocation is over, every record of the
\* current snapshot has got exactly the sends of its classification: one
\* reminder iff due tomorrow and not returned, one escalation iff due before
\* today and not returned, none otherwise (absent due date, due today).
C1_EveryRecordClassified ==
    RunOver =>
        \A i \in 1..Len(df_current.rows) :
            SubjectsFor(i - 1) =
                ExpectedSubjects(Classify(df_current.cols, df_current.rows[i], today))

\* C2: an invocation whose previous snapshot equals its current snapshot
\* logs no CellChanged, ShapeChanged, RowAdded or RowRemoved record, also
\* when the snapshot holds null-like cells.
C2_SameSnapshotNoRecord ==
    (Diffed /\ df_previous = <<df_current>>) => ChangeRecords = <<>>

\* The positions (1-based) where two frames of the same shape differ.
DifferingCells(prev, cur) ==
    {p \in (1..Len(cur.rows)) \X (1..Len(cur.cols)) :
        prev.rows[p[1]][p[2]] # cur.rows[p[1]][p[2]]}

\* C3: for a previous and a current snapshot of identical shape that differ
\* in exactly one cell (r,c), the comparison logs exactly one CellChanged
\* record, for (r,c) with the old and the new value, and no other record.
C3_OneCellOneRecord ==
    (/\ Diffed
     /\ df_previous # <<>>
     /\ Shape(df_previous[1]) = Shape(df_current)
     /\ Cardinality(DifferingCells(df_previous[1], df_current)) = 1)
    => LET p == CHOOSE q \in DifferingCells(df_previous[1], df_current) : TRUE
       IN  ChangeRecords =
             <<CellChangedLine(p[1] - 1, p[2] - 1,
                               df_previous[1].rows[p[1]][p[2]],
                               df_current.rows[p[1]][p[2]])>>

\* C4: when current is previous plus exactly one trailing row, the comparison
\* logs exactly one RowAdded record, at index rows(previous), and exactly one
\* ShapeChanged record, and nothing else.
C4_OneRowAdded ==
    (/\ Diffed
     /\ df_previous # <<>>
     /\ df_previous[1].cols = df_current.cols
     /\ Len(df_current.rows) = Len(df_previous[1].rows) + 1
     /\ SubSeq(df_current.rows, 1, Len(df_previous[1].rows)) = df_previous[1].rows)
    => /\ Len(ChangeRecords) = 2
       /\ {ChangeRecords[k] : k \in 1..2} =
            {ShapeChangedLine(Shape(df_previous[1]), Shape(df_current)),
             RowAddedLine(Len(df_previous[1].rows),
                          df_current.rows[Len(df_current.rows)])}

\* The stores hold what the latest invocation read and fingerprinted.
StoresHoldCurrent == lastData = <<df_current>> /\ lastHash = <<current_hash>>

\* The invocation found neither last_hash.txt nor last_data.pkl.
FirstRun ==
    /\ pc # "main"
    /\ previous_hash = <<>>
    /\ IF Diffed THEN df_previous = <<>> ELSE lastData = <<>>

\* C5: a first-ever invocation logs no change record and no fingerprint
\* event, only the single "no previous data" line, and when it is over both
\* stores hold the values of this invocation.
C5_FirstRun ==
    FirstRun =>
        /\ RunLines = (IF Diffed THEN <<NoPreviousLine>> ELSE <<>>)
        /\ RunOver => StoresHoldCurrent

C5_Witness ==
    /\ FirstRun
    /\ pc = "sched"
    /\ df_current.rows # <<>>
    /\ RunLines = <<NoPreviousLine>>
    /\ StoresHoldCurrent

\* C6: both stores hold the current values before the first send_email call
\* of an invocation and from then on, whatever the sends do, until the next
\* invocation starts.
C6_PersistedBeforeNotify == (outbox # <<>> \/ Persisted) => StoresHoldCurrent

C6_Witness ==
    /\ pc = "sched"
    /\ \E k \in 1..Len(outbox) : outbox[k].outcome = "failed"
    /\ StoresHoldCurrent

\* C7: when a send fails in the transport, the invocation is not aborted:
\* the failed send is not repeated, and every later record of the snapshot
\* has got the sends of its classification when the invocation is over.
C7_FailureDoesNotAbort ==
    RunOver =>
        \A k \in 1..Len(outbox) :
            outbox[k].outcome = "failed" =>
                /\ Len(CallsFor(outbox[k].msg.row)) = 1
                /\ \A i \in (outbox[k].msg.row + 2)..Len(df_current.rows) :
                      SubjectsFor(i - 1) =
                          ExpectedSubjects(
                              Classify(df_current.cols, df_current.rows[i], today))

\* C8: when an invocation is over, every record that is overdue and not
\* returned has got exactly one escalation, sent to the administrator list
\* and not to the record's contact, naming the record's roll number; and
\* every reminder has gone to the record's own contact alone.
C8_Recipients ==
    RunOver =>
        \A i \in 1..Len(df_current.rows) :
            LET row == df_current.rows[i]
                contact == row[ColIndex(df_current.cols, "Email")]
                roll == row[ColIndex(df_current.cols, "Roll Number")]
                class == Classify(df_current.cols, row, today)
                calls == CallsFor(i - 1)
            IN  /\ class = "Overdue" =>
                      /\ Len(calls) = 1
                      /\ calls[1].msg.subject = "Failure"
                      /\ calls[1].msg.to = ADMIN_EMAILS
                      /\ calls[1].msg.to # <<contact>>
                      /\ calls[1].msg.roll = roll
                /\ class = "ReminderDue" =>
                      /\ Len(calls) = 1
                      /\ calls[1].msg.subject = "Reminder"
                      /\ calls[1].msg.to = <<contact>>

\* The fingerprint event is among the lines of the latest invocation.
HashEventLogged == \E k \in 1..Len(RunLines) : RunLines[k] = HashChangedLine

C10_ReturnedFlag ==
    Persisted =>
        \A i \in 1..Len(df_current.rows) :
            LET row == df_current.rows[i]
                cell == row[ColIndex(df_current.cols, "Returned")]
                due == row[ColIndex(df_current.cols, "Date of Return")]
            IN  /\ (ReturnedFlag(cell) = Yes) <=> (cell \in ReturnedSpellings)
                /\ i < idx =>
                      SubjectsFor(i - 1) =
                          IF cell \in ReturnedSpellings \/ due.t # "date" THEN <<>>
                          ELSE IF due.d = today + 1 THEN <<"Reminder">>
                          ELSE IF due.d < today THEN <<"Failure">>
                          ELSE <<>>

C10_Witness ==
    /\ pc = "sched"
    /\ Len(df_current.rows) = 2
    /\ df_current.rows[1][ColIndex(df_current.cols, "Returned")]
         = Str(<<" ", "y", "e", "s", " ">>)
    /\ df_current.rows[2][ColIndex(df_current.cols, "Returned")]
         = Str(<<"Y", "E", "S">>)
    /\ df_current.rows[1][ColIndex(df_current.cols, "Date of Return")].d < today
    /\ outbox = <<>>

\* The latest invocation ended on a source that could not be fingerprinted
\* or read.
SourceFailed == pc = "crashed" /\ error \in {"hash", "read"}

\* C11: when an invocation is ended by a failure to fingerprint the file, to
\* load the table or to convert the date columns, last_hash.txt and
\* last_data.pkl hold what they held when the invocation began, and the
\* invocation has made no send_email call.
C11_SourceFailureKeepsStores ==
    SourceFailed => (<<lastHash, lastData>> = stores0 /\ outbox = <<>>)

\* A run on an unreadable workbook ended while both stores hold the values of
\* an earlier run.
C11_Witness ==
    /\ SourceFailed
    /\ error = "read"
    /\ lastHash # <<>>
    /\ lastData # <<>>

\* The latest invocation ended on a failure to write one of the two stores.
StoreFailed == pc = "crashed" /\ error \in {"save_data", "save_hash"}

\* C12: when an invocation is ended by a failure to write last_data.pkl or
\* last_hash.txt, nothing of the run has been committed: the two stores hold
\* what they held when the invocation began, and so never the snapshot of
\* one run beside the fingerprint of another.
C12_NoPartialCommit == StoreFailed => <<lastHash, lastData>> = stores0

\* C13: every step leaves the entries changes_log.txt held in place and in
\* order, so the log before is a prefix of the log after; every entry a step
\* appends carries the time of the write in front and takes one line of the
\* file.
C13_LogAppendOnly ==
    [][/\ Len(changesLog') >= Len(changesLog)
       /\ SubSeq(changesLog', 1, Len(changesLog)) = changesLog
       /\ \A k \in (Len(changesLog) + 1)..Len(changesLog') :
            /\ changesLog'[k].ts = clock
            /\ TextLines(changesLog'[k]) = 1]_vars

\* C14: at most one invocation of check_excel is in progress in any state,
\* and one is in progress exactly while the main thread is inside
\* check_excel; a job that is due while an invocation runs waits for main's
\* loop.
C14_NoOverlap ==
    /\ active \in {0, 1}
    /\ active = 1 <=> pc \in {"read", "diff", "save_data", "save_hash", "loop"}

\* The hourly job is due while an invocation it started is sending mail.
C14_Witness ==
    /\ active = 1
    /\ job = "due"
    /\ pc = "loop"
    /\ outbox # <<>>

\* The CellChanged records the latest invocation logged for the cell at row
\* index r and column index c.
CellRecordsAt(r, c) ==
    SelectSeq(ChangeRecords,
              LAMBDA l : l.kind = "CellChanged" /\ l.row = r /\ l.col = c)

\* C15: for every position the previous and the current snapshot share, a
\* cell that is null-like in both gets no CellChanged record, and a cell that
\* is null-like in exactly one of them gets exactly one.
C15_NullCells ==
    (Diffed /\ df_previous # <<>>) =>
        \A r \in 1..Min(Len(df_previous[1].rows), Len(df_current.rows)) :
            \A c \in 1..Min(Len(df_previous[1].cols), Len(df_current.cols)) :
                LET old == df_previous[1].rows[r][c]
                    new == df_current.rows[r][c]
                IN  /\ (IsNull(old) /\ IsNull(new))
                        => Len(CellRecordsAt(r - 1, c - 1)) = 0
                    /\ (IsNull(old) # IsNull(new))
                        => Len(CellRecordsAt(r - 1, c - 1)) = 1

\* The place of a kind of change record in the order of one run.
Rank(kind) ==
    CASE kind = "ShapeChanged" -> 0
      [] kind = "CellChanged" -> 1
      [] OTHER -> 2

\* C16: in the change records of one invocation, taken in the order they
\* were appended, a ShapeChanged record comes before every CellChanged
\* record, the CellChanged records come in row-major order of their cells,
\* and the RowAdded or RowRemoved records come after every CellChanged record
\* in ascending order of their row index.
C16_RecordOrder ==
    Diffed =>
        \A i, j \in 1..Len(ChangeRecords) :
            i < j =>
                LET a == ChangeRecords[i]
                    b == ChangeRecords[j]
                IN  /\ Rank(a.kind) <= Rank(b.kind)
                    /\ (Rank(a.kind) = 0) => (Rank(b.kind) # 0)
                    /\ (Rank(a.kind) = 1 /\ Rank(b.kind) = 1)
                        => (a.row < b.row \/ (a.row = b.row /\ a.col < b.col))
                    /\ (Rank(a.kind) = 2 /\ Rank(b.kind) = 2) => a.row < b.row

\* One run logged a shape change, then changed cells of two rows of which the
\* later one lies in an earlier column, then a row record.
C16_Witness ==
    /\ Diffed
    /\ Len(ChangeRecords) >= 4
    /\ ChangeRecords[1].kind = "ShapeChanged"
    /\ \E i, j \in 1..Len(ChangeRecords) :
        /\ i < j
        /\ ChangeRecords[i].kind = "CellChanged"
        /\ ChangeRecords[j].kind = "CellChanged"
        /\ ChangeRecords[i].row < ChangeRecords[j].row
        /\ ChangeRecords[i].col > ChangeRecords[j].col
    /\ ChangeRecords[Len(ChangeRecords)].kind \in {"RowAdded", "RowRemoved"}

\* The records of one kind among the change records of the latest invocation.
RecordsOf(kind) == SelectSeq(ChangeRecords, LAMBDA l : l.kind = kind)

\* C17: a comparison against a stored snapshot logs max(0, rows(current) -
\* rows(previous)) RowAdded records, the k-th for index rows(previous)+k-1
\* with that row of the current snapshot, and max(0, rows(previous) -
\* rows(current)) RowRemoved records, the k-th for index rows(current)+k-1
\* with that row of the previous snapshot; never records of both kinds.
C17_RowRecords ==
    (Diffed /\ df_previous # <<>>) =>
        LET np == Len(df_previous[1].rows)
            nc == Len(df_current.rows)
            added == RecordsOf("RowAdded")
            removed == RecordsOf("RowRemoved")
        IN  /\ Len(added) = Max(0, nc - np)
            /\ Len(removed) = Max(0, np - nc)
            /\ \A k \in 1..Len(added) :
                /\ added[k].row = np + k - 1
                /\ added[k].rec = df_current.rows[np + k]
            /\ \A k \in 1..Len(removed) :
                /\ removed[k].row = nc + k - 1
                /\ removed[k].rec = df_previous[1].rows[nc + k]
            /\ added = <<>> \/ removed = <<>>

\* A run found the sheet two rows shorter and logged both removals.
C17_Witness ==
    /\ Diffed
    /\ df_previous # <<>>
    /\ Len(df_previous[1].rows) = Len(df_current.rows) + 2
    /\ Len(RecordsOf("RowRemoved")) = 2

\* No cell of the frame is null-like.
NullFree(df) ==
    \A r \in 1..Len(df.rows) : \A c \in 1..Len(df.cols) : ~IsNull(df.rows[r][c])

\* The file has not been saved since the invocation before the latest one
\* began.
Settled == quiet = 2

\* C18: the baseline rolls.  Once an invocation has persisted, the snapshot
\* store holds the frame it read and the fingerprint store the fingerprint
\* it computed; the next invocation begins with that frame in the snapshot
\* store (df_current is still the frame of the invocation before until the
\* sheet is read) and compares against it.  An invocation that reads null-free
\* frames logs a change record when its frame differs from the stored one,
\* and when the file has not been saved since the invocation before it began
\* it logs nothing at all: no change record and no fingerprint event.
C18_RollingBaseline ==
    /\ Persisted => StoresHoldCurrent
    /\ pc = "sched" => StoresHoldCurrent
    /\ (pc = "read" /\ stores0[2] # <<>>) => stores0[2] = <<df_current>>
    /\ Diffed => (df_previous = stores0[2] /\ previous_hash = stores0[1])
    /\ (/\ Diffed
        /\ df_previous # <<>>
        /\ NullFree(df_previous[1])
        /\ NullFree(df_current)
        /\ df_previous[1] # df_current) => ChangeRecords # <<>>
    /\ (Diffed /\ Settled /\ NullFree(df_current)) => RunLines = <<>>

\* Three runs in a row: the one before last logged a change, and the latest
\* one, with the file untouched since, has compared and logged nothing.
C18_Witness ==
    /\ Diffed
    /\ Settled
    /\ NullFree(df_current)
    /\ logMark >= 2
    /\ changesLog[logMark].msg.kind \in ChangeKinds
    /\ RunLines = <<>>

\* The subjects of the sends the frame and the day call for, row by row.
RECURSIVE ExpectedSends(_, _, _)
ExpectedSends(df, i, now) ==
    IF i > Len(df.rows)
    THEN <<>>
    ELSE [k \in 1..Len(ExpectedSubjects(Classify(df.cols, df.rows[i], now))) |->
            <<i - 1, ExpectedSubjects(Classify(df.cols, df.rows[i], now))[k]>>]
         \o ExpectedSends(df, i + 1, now)

\* C19: when the due-date pass of an invocation is over, the send_email
\* calls it made are, row by row, exactly the ones the current snapshot and
\* today call for, whatever the previous snapshot, the comparison or earlier
\* invocations were: on a first run, on a run that logged nothing, and again
\* in every later run for a record that stays overdue or due tomorrow.
C19_NoNotificationMemory ==
    RunOver =>
        [k \in 1..Len(outbox) |-> <<outbox[k].msg.row, outbox[k].msg.subject>>]
            = ExpectedSends(df_current, 1, today)

====
